---- MODULE Spec2Model ----
(***************************************************************************)
(* Settlement and concurrency-control engine of the Radix spinner bot      *)
(* (src/bot_fixed.py, src/radix_integration.py).                           *)
(*                                                                         *)
(* Money.  The code computes in Python floats.  The model computes in      *)
(* exact arithmetic on the grid of 1/4800 XRD: 1 XRD is 4800, the 0.5 XRD  *)
(* fee is 2400.  With MAX_WIN_PERCENTAGE = 5 the quotients the code forms  *)
(* from a whole-XRD house balance (balance * 5/100 / 12, / 48, / 5) are    *)
(* exact on that grid.  Float rounding is not modelled.                    *)
(*                                                                         *)
(* Scheduling.  main() builds the Application with                         *)
(* Application.builder().token(TOKEN).build() (bot_fixed.py:2065), which   *)
(* leaves concurrent update processing off: the dispatcher awaits one      *)
(* handler coroutine to its end before it takes the next update.  What     *)
(* runs alongside a handler are the coroutines started with                *)
(* asyncio.create_task (bot_fixed.py:526, 1114, 1913).  The variable       *)
(* `handler` is the one handler the dispatcher is in; `batches` holds      *)
(* every process_multiple_* run ever started, the background ones and the  *)
(* ones an again-callback awaits inline.  A run that has ended leaves its  *)
(* last message behind: for a result message, the callback data of its     *)
(* buttons.                                                                *)
(***************************************************************************)
EXTENDS Integers, Sequences, FiniteSets, TLC

\* ------------------------------------------------------------------ bounds

\* process_multiple_* runs started in one behaviour
MaxBatches == 2
\* withdraw rows written in one behaviour
MaxWithdrawals == 1

\* ------------------------------------------------------- program constants

XRD(x) == x * 4800

MIN_SPIN_AMOUNT == 4800
MAX_SPIN_AMOUNT == 4800000
MAX_WIN_PERCENTAGE == 5
GAME_OWNER_TELEGRAM_ID == 0
\* the 0.5 XRD transaction fee
FEE == 2400
\* withdraw: the 1.01 XRD floor and the 1.000001 XRD taken off the amount;
\* 1.000001 XRD is not on the grid and is carried as 1 XRD plus one grid step
WITHDRAW_MIN == 4848
WITHDRAW_FEE == 4801
\* the 10000 "deposit" row create_account writes
INITIAL_DEPOSIT == 48000000

\* --------------------------------------------------------------- the inputs

\* telegram ids that send updates; 0 is the game owner
Handles == {0, 1}
\* the ids that send /spin, /spin_7s and /die
Players == {1}
\* the ids the owner names in /whitelist_add and /whitelist_remove
Targets == {1}
\* live balances the gateway reports for the game account
HouseBalances == {XRD(1000)}
\* live balances the gateway reports for a user account
UserBalances == {XRD(0), XRD(31)}
\* context.args[0]: the literal max, or a number
Max == [lit |-> "max", value |-> 0]
Num(v) == [lit |-> "num", value |-> v]
AmountArgs == {Max, Num(XRD(10)), Num(2400)}
\* context.args[1:2] after int(): absent, in range, out of range
NumArgs == {<<>>, <<1>>, <<4>>}
\* where the update comes from
Chats == {"private", "allowed_group"}
\* dice values telegram returns for the slot emoji and for the die emoji
SlotSample == {2, 64}
DieSample == {1, 6}
\* context.args[1:2] of /withdraw_spinner after float(): absent, or an amount
WithdrawArgs == {<<>>, <<XRD(1)>>, <<WITHDRAW_MIN>>}

Variants == {"spin", "spin_7s", "die"}

\* ------------------------------------------------------------- the accounts

GameAccount == <<"game", 1>>
UserAccount(u) == <<"user", u>>

\* ------------------------------------------------------- the pure functions

Min2(a, b) == IF a <= b THEN a ELSE b
Max2(a, b) == IF a >= b THEN a ELSE b
Abs(x) == IF x < 0 THEN -x ELSE x

\* Multiplier at which each variant pays back all that is staked
FairMultiplier(variant) ==
    IF variant = "spin_7s" THEN 64 ELSE IF variant = "die" THEN 6 ELSE 16

\* the multiplier of a variant: calculate_max_bet and the result loops
Multiplier(variant) ==
    IF variant = "spin_7s" THEN 48 ELSE IF variant = "die" THEN 5 ELSE 12

\* x * (p / 100), computed by hundreds so that the product of a large
\* balance stays within the integers of the model checker
PercentOf(x, p) == (x \div 100) * p + ((x % 100) * p) \div 100

\* MaxWin without the max(0, ...)
SignedMaxWin(game_balance) == PercentOf(game_balance, MAX_WIN_PERCENTAGE)

\* max(0, game_balance * (max_win_percentage / 100))
MaxWin(game_balance) == Max2(0, PercentOf(game_balance, MAX_WIN_PERCENTAGE))

\* calculate_max_bet without the min(MAX_SPIN_AMOUNT, ...)
UncappedMaxBet(game_balance, variant) == MaxWin(game_balance) \div Multiplier(variant)

calculate_max_bet(game_balance, variant) ==
    LET max_bet == Min2(MAX_SPIN_AMOUNT, MaxWin(game_balance) \div Multiplier(variant))
    IN  IF variant = "spin_7s" THEN Min2(max_bet, MAX_SPIN_AMOUNT \div 4) ELSE max_bet

\* get_spin_amount: None is [ok |-> FALSE]; has_account and user_balance are
\* read on the max path only
Rejected(text) == [ok |-> FALSE, amount |-> 0, text |-> text]
Resolved(amount) == [ok |-> TRUE, amount |-> amount, text |-> ""]
\* "return max_bet" after the reply that the amount is adjusted
Adjusted(amount) == [ok |-> TRUE, amount |-> amount, text |-> "adjusted to maximum"]

\* user_max_bet with the fee left in
WholeBalance(user_balance) == Max2(0, user_balance)

\* user_max_bet = max(0, user_balance - 0.5)
user_max_bet(user_balance) == Max2(0, user_balance - FEE)

\* get_spin_amount that turns down an amount above max_bet
RejectsAboveMax(arg, variant, game_balance, has_account, user_balance) ==
    LET max_bet == calculate_max_bet(game_balance, variant)
    IN  IF arg.lit = "max"
        THEN IF ~has_account THEN Rejected("no account")
             ELSE LET amount == Min2(max_bet, user_max_bet(user_balance))
                  IN  IF amount < MIN_SPIN_AMOUNT THEN Rejected("below minimum")
                      ELSE Resolved(amount)
        ELSE IF arg.value < MIN_SPIN_AMOUNT THEN Rejected("below minimum")
             ELSE IF arg.value > max_bet THEN Rejected("above maximum")
             ELSE Resolved(arg.value)

get_spin_amount(arg, variant, game_balance, has_account, user_balance) ==
    LET max_bet == calculate_max_bet(game_balance, variant)
    IN  IF arg.lit = "max"
        THEN IF ~has_account THEN Rejected("no account")
             ELSE LET amount == Min2(max_bet, user_max_bet(user_balance))
                  IN  IF amount < MIN_SPIN_AMOUNT THEN Rejected("below minimum")
                      ELSE Resolved(amount)
        ELSE IF arg.value < MIN_SPIN_AMOUNT THEN Rejected("below minimum")
             ELSE IF arg.value > max_bet THEN Adjusted(max_bet)
             ELSE Resolved(arg.value)

\* the three figures the /max_bet command reports
max_bet(game_balance) ==
    LET max_win == Max2(0, PercentOf(game_balance, MAX_WIN_PERCENTAGE))
    IN  [spin    |-> Min2(MAX_SPIN_AMOUNT, max_win \div 12),
         spin_7s |-> Min2(MAX_SPIN_AMOUNT \div 4, max_win \div 48),
         die     |-> Min2(MAX_SPIN_AMOUNT, max_win \div 5)]

\* TotalNeeded without the fee
NeededForStakes(amount, num) == amount * num

\* total_needed = (amount * num_spins) + 0.5
TotalNeeded(amount, num) == (amount * num) + FEE

\* is_win of the three result loops
IsWin(variant, dice_value) ==
    IF variant = "spin_7s" THEN dice_value = 64
    ELSE IF variant = "die" THEN dice_value = 6
    ELSE dice_value \in {1, 22, 43, 64}

\* the result loop: total_winnings += amount * multiplier for each winning dice
RECURSIVE TotalWinnings(_, _, _)
TotalWinnings(variant, amount, dice) ==
    IF dice = <<>> THEN 0
    ELSE LET rest == TotalWinnings(variant, amount, SubSeq(dice, 1, Len(dice) - 1))
         IN  IF IsWin(variant, dice[Len(dice)])
             THEN rest + amount * Multiplier(variant)
             ELSE rest

\* TotalCost that forgets the number of plays
CostOfOnePlay(amount, num) == amount

\* total_cost = amount * num_spins
TotalCost(amount, num) == amount * num

\* settle_spin_manifest: who locks the fee and is withdrawn from, who is paid
settle_spin_manifest(game_address, player_address, net_result) ==
    IF net_result > 0
    THEN [payer |-> game_address, payee |-> player_address, amount |-> net_result]
    ELSE [payer |-> player_address, payee |-> game_address, amount |-> Abs(net_result)]

\* SettlementSigner with the game account signing every settlement
GameSigns(game_address, player_address, net_result) == game_address

\* the account whose keys process_multiple_* passes to the submission
SettlementSigner(game_address, player_address, net_result) ==
    IF net_result > 0 THEN game_address ELSE player_address

\* WinningsPaidIncrement without the fee taken off
FullNetResult(net_result) == net_result

\* (net_result - 0.5,), the value added to total_winnings_paid
WinningsPaidIncrement(net_result) == net_result - FEE

\* UpdatesGameStats that lets a loss through to the UPDATE
NonZeroResult(net_result) == net_result # 0

\* "if net_result > 0:" before the UPDATE game_stats
UpdatesGameStats(net_result) == net_result > 0

\* NeedsTransfer that submits a transfer of nothing
AlwaysTransfers(net_result) == TRUE

\* "if net_result != 0:" before the manifest and its submission
NeedsTransfer(net_result) == net_result # 0

\* what submit_transaction_with_manifest returns: {"error": ...}, or a status
SubmitResults == {"error", "CommittedSuccess", "CommittedFailure", "Rejected", "Unknown"}

\* "error" in result
HasError(result) == result = "error"

\* ----------------------------------------------------------------- the state

VARIABLES
    ongoing_spins,        \* bot_fixed.py:89, handle -> busy flag
    MAINTENANCE_MODE,     \* bot_fixed.py:136
    users,                \* handles with a row in table users
    whitelist,            \* handles with a row in table whitelist
    transactions,         \* rows of table transactions, in insertion order
    total_winnings_paid,  \* game_stats.total_winnings_paid of row 1
    handler,              \* the handler coroutine the dispatcher is awaiting
    batches               \* the process_multiple_* runs, in start order

vars == <<ongoing_spins, MAINTENANCE_MODE, users, whitelist, transactions,
          total_winnings_paid, handler, batches>>

NoParty == <<"none", 0>>
NoTx == [payer |-> NoParty, payee |-> NoParty, amount |-> 0, signer |-> NoParty]

\* a submission: the manifest and the account whose keys sign it
Tx(manifest, signer) ==
    [payer |-> manifest.payer, payee |-> manifest.payee,
     amount |-> manifest.amount, signer |-> signer]

Idle == [kind |-> "idle", user |-> 0, pc |-> "", variant |-> "", num |-> 0,
         amount |-> 0, ref |-> 0, tx |-> NoTx, result |-> ""]

\* a handler coroutine as it passes its checks
NewHandler(kind, user, pc, variant, num, amount, ref, tx) ==
    [kind |-> kind, user |-> user, pc |-> pc, variant |-> variant, num |-> num,
     amount |-> amount, ref |-> ref, tx |-> tx, result |-> ""]

\* a process_multiple_* run as it is entered; balance is the live balance
\* the handler read before it started the run
NewBatch(user, variant, amount, num, via, balance, max_bet_now) ==
    [user |-> user, variant |-> variant, amount |-> amount, num |-> num,
     via |-> via, balance |-> balance, max_bet |-> max_bet_now, pc |-> "start", dice |-> <<>>,
     total_winnings |-> 0,
     net |-> 0, tx |-> NoTx, submits |-> 0, status |-> "", credited |-> 0,
     report |-> "", refund |-> 0]

\* what a run leaves behind.  A result message carries the again button
\* (variant, amount, number of plays; the callback reads the spinner off the
\* message it replies to) and, when the user did not win, the refund button
\* (abs(net_result), number of plays, user id).  Any other last message
\* carries nothing.  credited stays: what the run added to the counter.
Ended(b, report) ==
    IF report = "results"
    THEN [NewBatch(b.user, b.variant, b.amount, b.num, b.via, 0, 0) EXCEPT
             !.pc = "done", !.report = report,
             !.refund = IF b.net > 0 THEN 0 ELSE Abs(b.net),
             !.credited = b.credited]
    ELSE [NewBatch(0, "", 0, 0, "command", 0, 0) EXCEPT
             !.pc = "done", !.report = report, !.credited = b.credited]

Init ==
    /\ ongoing_spins = [u \in Handles |-> FALSE]
    /\ MAINTENANCE_MODE = TRUE
    /\ users = {}
    /\ whitelist = {}
    /\ transactions = <<>>
    /\ total_winnings_paid = 0
    /\ handler = Idle
    /\ batches = <<>>

\* ------------------------------------------------------- the access checks

\* check_whitelist
check_whitelist(user_id) == user_id \in whitelist \/ user_id = GAME_OWNER_TELEGRAM_ID

\* check_maintenance_mode: TRUE when the command proceeds
check_maintenance_mode(user_id) ==
    user_id = GAME_OWNER_TELEGRAM_ID \/ ~MAINTENANCE_MODE

\* the commands check_chat_permissions asks the whitelist for
game_commands == {"/spin", "/spin_7s", "/spinner_balance", "/spinner_max_bet",
                  "/spinner_payouts"}

\* check_chat_permissions: TRUE when the command proceeds
check_chat_permissions(user_id, chat, command) ==
    IF user_id = GAME_OWNER_TELEGRAM_ID THEN TRUE
    ELSE IF chat = "private" THEN FALSE
    ELSE IF chat = "allowed_group"
         THEN IF command \in game_commands THEN check_whitelist(user_id) ELSE TRUE
         ELSE FALSE

CommandOf(variant) == IF variant = "spin" THEN "/spin"
                      ELSE IF variant = "spin_7s" THEN "/spin_7s" ELSE "/die"

\* what reply_dice can return for up to three dice
DiceRolls == UNION {[1..n -> SlotSample \cup DieSample] : n \in 1..3}

Sample(variant) == IF variant = "die" THEN DieSample ELSE SlotSample

\* every value dice_msg.dice.value can have: 1..64 for the slot machine
\* emoji, 1..6 for the die emoji
DiceValues(variant) == IF variant = "die" THEN 1..6 ELSE 1..64

\* ------------------------------------------------- the session guard

\* "if ongoing_spins.get(user_id):"
IsBusy(user_id) == ongoing_spins[user_id]

\* "ongoing_spins[user_id] = True" / "= False"
Acquired(user_id) == [ongoing_spins EXCEPT ![user_id] = TRUE]

\* Release that flips the flag instead of clearing it
ToggleRelease(spins, user_id) == [spins EXCEPT ![user_id] = ~spins[user_id]]

\* "ongoing_spins[user_id] = False" on a value of the dictionary
Release(spins, user_id) == [spins EXCEPT ![user_id] = FALSE]

Released(user_id) == Release(ongoing_spins, user_id)

\* the "= False" assignments at the end of a run: the one before the return
\* of a failed lookup or a failed submission, the run's finally clause, and
\* the finally clause of the again-callback that awaited the run
ReleasesAtEnd(b, report) ==
    1 + (IF report \in {"account not found", "transaction failed"} THEN 1 ELSE 0)
      + (IF b.via = "again" THEN 1 ELSE 0)

RECURSIVE ReleaseTimes(_, _, _)
ReleaseTimes(spins, user_id, n) ==
    IF n = 0 THEN spins ELSE ReleaseTimes(Release(spins, user_id), user_id, n - 1)

\* whether a command handler sets the flag before its validation (spin) or
\* after it (spin_7s, die)
AcquiresBeforeValidation(variant) == variant = "spin"

\* ReleasedOnRejection with the "ongoing_spins[user_id] = False" before the
\* return forgotten
KeptOnRejection(user_id, variant) == ongoing_spins

\* the flag after a command handler has turned the request down: spin clears
\* it before each return and in its except clause; spin_7s and die have not
\* set it yet
ReleasedOnRejection(user_id, variant) ==
    IF AcquiresBeforeValidation(variant) THEN Released(user_id) ELSE ongoing_spins

\* ---------------------------------------------- /spin, /spin_7s and /die

\* the checks of spin, spin_7s and die that end the handler with a message
\* and nothing else
PlayCommandRefused(u, chat, variant, numarg) ==
    \/ ~check_maintenance_mode(u)
    \/ ~check_chat_permissions(u, chat, CommandOf(variant))
    \/ IsBusy(u)
    \/ (numarg # <<>> /\ (numarg[1] < 1 \/ numarg[1] > 3))

\* spin, spin_7s, die up to the first await of the validation.  spin sets the
\* busy flag here; spin_7s and die only read it.
PlayCommand(u, chat, variant, numarg) ==
    /\ handler = Idle
    /\ UNCHANGED <<MAINTENANCE_MODE, users, whitelist, transactions,
                   total_winnings_paid, batches>>
    /\ IF PlayCommandRefused(u, chat, variant, numarg)
       THEN UNCHANGED <<ongoing_spins, handler>>
       ELSE /\ handler' = NewHandler("command", u, "validate", variant,
                                     IF numarg = <<>> THEN 1 ELSE numarg[1],
                                     0, 0, NoTx)
            /\ ongoing_spins' = IF AcquiresBeforeValidation(variant)
                                THEN Acquired(u) ELSE ongoing_spins

\* the rest of spin, spin_7s, die: get_spin_amount (which reads
\* context.args[0]), the account lookup, the balance check, create_task.
\* raises: the balance read outside get_spin_amount raised.  spin clears the
\* flag on every way out but the task; spin_7s and die set it just before
\* the task.
ValidateCommand(arg, game_balance, max_balance, balance, raises) ==
    LET u == handler.user
        variant == handler.variant
        r == get_spin_amount(arg, variant, game_balance, u \in users, max_balance)
        failed == \/ ~r.ok
                  \/ u \notin users
                  \/ raises
                  \/ balance < TotalNeeded(r.amount, handler.num)
    IN  /\ handler.kind = "command"
        /\ handler.pc = "validate"
        /\ failed \/ Len(batches) < MaxBatches
        /\ handler' = Idle
        /\ UNCHANGED <<MAINTENANCE_MODE, users, whitelist, transactions,
                       total_winnings_paid>>
        /\ IF failed
           THEN /\ ongoing_spins' = ReleasedOnRejection(u, variant)
                /\ UNCHANGED batches
           ELSE /\ ongoing_spins' = Acquired(u)
                /\ batches' = Append(batches,
                                     NewBatch(u, variant, r.amount, handler.num,
                                              "command", balance,
                                              calculate_max_bet(game_balance,
                                                                variant)))

\* ------------------------------------------------ process_multiple_*

\* the end of a run: the finally clause clears the flag, and for a run an
\* again-callback awaits, the callback's own finally clause follows without
\* another await
Finish(i, report) ==
    /\ batches' = [batches EXCEPT ![i] = Ended(batches[i], report)]
    /\ ongoing_spins' = ReleaseTimes(ongoing_spins, batches[i].user,
                                     ReleasesAtEnd(batches[i], report))
    /\ handler' = IF batches[i].via = "again" THEN Idle ELSE handler

\* the initial message and the dice
RollDice(i, dice) ==
    /\ i \in 1..Len(batches)
    /\ batches[i].pc = "start"
    /\ Len(dice) = batches[i].num
    /\ \A k \in 1..Len(dice) : dice[k] \in Sample(batches[i].variant)
    /\ batches' = [batches EXCEPT ![i].pc = "rolled", ![i].dice = dice]
    /\ UNCHANGED <<ongoing_spins, MAINTENANCE_MODE, users, whitelist, transactions,
                   total_winnings_paid, handler>>

\* StakeAtSettlement that charges a run without a win half its stake
StakeCutOnLoss(b) ==
    IF TotalWinnings(b.variant, b.amount, b.dice) = 0 THEN b.amount \div 2 ELSE b.amount

\* the amount the result loop and total_cost multiply: the parameter the run
\* was entered with
StakeAtSettlement(b) == b.amount

\* the account lookup, the sleep, the result loop, the net result and, when
\* it is not zero, the manifest and its submission
Settle(i) ==
    /\ i \in 1..Len(batches)
    /\ batches[i].pc = "rolled"
    /\ UNCHANGED <<MAINTENANCE_MODE, users, whitelist, transactions,
                   total_winnings_paid>>
    /\ LET b == batches[i]
           total_winnings == TotalWinnings(b.variant, StakeAtSettlement(b), b.dice)
           net_result == total_winnings - TotalCost(StakeAtSettlement(b), b.num)
           manifest == settle_spin_manifest(GameAccount, UserAccount(b.user), net_result)
           signer == SettlementSigner(GameAccount, UserAccount(b.user), net_result)
       IN  IF b.user \notin users
           THEN Finish(i, "account not found")
           ELSE /\ batches' = [batches EXCEPT
                      ![i].dice = <<>>,
                      ![i].total_winnings = total_winnings,
                      ![i].net = net_result,
                      ![i].pc = IF NeedsTransfer(net_result) THEN "submitting" ELSE "report",
                      ![i].tx = IF NeedsTransfer(net_result) THEN Tx(manifest, signer) ELSE NoTx,
                      ![i].submits = IF NeedsTransfer(net_result)
                                     THEN b.submits + 1 ELSE b.submits]
                /\ UNCHANGED <<ongoing_spins, handler>>

\* AfterSubmit that sends a failed submission back to be made again
RetryOnError(result, net_result) ==
    IF HasError(result) THEN "rolled"
    ELSE IF UpdatesGameStats(net_result) THEN "record" ELSE "report"

\* where a run goes when its submission has returned: out with the failure
\* message, on to the UPDATE of game_stats, or past it to the result message
AfterSubmit(result, net_result) ==
    IF HasError(result) THEN "failed"
    ELSE IF UpdatesGameStats(net_result) THEN "record" ELSE "report"

\* SettlementRecords with a row for each settlement
SpinRecord(b) == <<[telegram_id |-> b.user, action |-> "spin", amount |-> b.net]>>

\* the rows a run inserts into the transactions table for its settlement:
\* process_multiple_* have no INSERT
SettlementRecords(b) == <<>>

\* submit_transaction_with_manifest returns
SubmitReturns(i, result) ==
    /\ i \in 1..Len(batches)
    /\ batches[i].pc = "submitting"
    /\ result \in SubmitResults
    /\ UNCHANGED <<MAINTENANCE_MODE, users, whitelist, total_winnings_paid>>
    /\ IF AfterSubmit(result, batches[i].net) = "failed"
       THEN Finish(i, "transaction failed") /\ UNCHANGED transactions
       ELSE /\ batches' = [batches EXCEPT
                              ![i].pc = AfterSubmit(result, batches[i].net),
                              ![i].status = result]
            /\ transactions' = transactions \o SettlementRecords(batches[i])
            /\ UNCHANGED <<ongoing_spins, handler>>

\* AddedToCounter that writes the value without reading the row
SetCounter(counter, inc) == inc

\* "SET total_winnings_paid = total_winnings_paid + ?": one statement, on
\* the value the row has when it runs
AddedToCounter(counter, inc) == counter + inc

\* the UPDATE of game_stats
Record(i) ==
    /\ i \in 1..Len(batches)
    /\ batches[i].pc = "record"
    /\ LET inc == WinningsPaidIncrement(batches[i].net)
       IN  /\ total_winnings_paid' = AddedToCounter(total_winnings_paid, inc)
           /\ batches' = [batches EXCEPT ![i].pc = "report", ![i].credited = inc]
    /\ UNCHANGED <<ongoing_spins, MAINTENANCE_MODE, users, whitelist, transactions,
                   handler>>

\* the result message with its buttons, then the finally clause
Report(i) ==
    /\ i \in 1..Len(batches)
    /\ batches[i].pc = "report"
    /\ Finish(i, "results")
    /\ UNCHANGED <<MAINTENANCE_MODE, users, whitelist, transactions,
                   total_winnings_paid>>

\* an await of the run raises (a telegram call, the database): the except
\* clause, then the finally clause
BatchRaises(i) ==
    /\ i \in 1..Len(batches)
    /\ batches[i].pc \in {"start", "rolled", "record", "report"}
    /\ Finish(i, "error")
    /\ UNCHANGED <<MAINTENANCE_MODE, users, whitelist, transactions,
                   total_winnings_paid>>

\* ----------------------------------------------------- the again-callbacks

\* the sender of the message the result message replies to: the user's
\* command for a run started by a command, the bot's own message for a run
\* started by an again-callback (no handle)
OriginalSpinner(i) == IF batches[i].via = "command" THEN {batches[i].user} ELSE {}

\* what the outer except clause of the again-callbacks does to the flag of
\* the user who pressed the button
AfterCallbackError(user_id) == Released(user_id)

\* handle_spin_again, handle_spin_7s_again, handle_die_again up to the flag:
\* u presses the again button under the result message of run i.  raises: a
\* step before the flag is set raises (reply_to_message is gone, answering
\* the query fails) and the outer except clause runs.
AgainCallback(u, i, raises) ==
    /\ handler = Idle
    /\ i \in 1..Len(batches)
    /\ batches[i].pc = "done"
    /\ batches[i].report = "results"
    /\ UNCHANGED <<MAINTENANCE_MODE, users, whitelist, transactions,
                   total_winnings_paid, batches>>
    /\ IF raises
       THEN /\ ongoing_spins' = AfterCallbackError(u)
            /\ UNCHANGED handler
       ELSE IF u \notin OriginalSpinner(i) \/ IsBusy(u)
       THEN UNCHANGED <<ongoing_spins, handler>>
       ELSE /\ ongoing_spins' = Acquired(u)
            /\ handler' = NewHandler("again", u, "validate", batches[i].variant,
                                     batches[i].num, batches[i].amount, 0, NoTx)

\* the inner try of the again-callbacks: the account lookup and the balance
\* check, then process_multiple_* awaited inline.  Every way out but that one
\* runs the finally clause.  game_balance is what the game account holds
\* meanwhile: the callbacks do not read it and do not call get_spin_amount.
ValidateAgain(game_balance, balance, raises) ==
    LET u == handler.user
        failed == \/ u \notin users
                  \/ raises
                  \/ balance < TotalNeeded(handler.amount, handler.num)
    IN  /\ handler.kind = "again"
        /\ handler.pc = "validate"
        /\ failed \/ Len(batches) < MaxBatches
        /\ UNCHANGED <<MAINTENANCE_MODE, users, whitelist, transactions,
                       total_winnings_paid>>
        /\ IF failed
           THEN /\ ongoing_spins' = Released(u)
                /\ handler' = Idle
                /\ UNCHANGED batches
           ELSE /\ batches' = Append(batches,
                                     NewBatch(u, handler.variant, handler.amount,
                                              handler.num, "again", balance,
                                              calculate_max_bet(game_balance,
                                                                handler.variant)))
                /\ handler' = [handler EXCEPT !.pc = "await", !.ref = Len(batches) + 1]
                /\ UNCHANGED ongoing_spins

\* ------------------------------------------------------------- handle_refund

\* the checks of handle_refund that end it with a message and nothing else;
\* original_spinner_id is the user id in the callback data
RefundRefused(u, original_spinner_id) ==
    \/ u # original_spinner_id
    \/ ~check_whitelist(u)
    \/ u \notin users

\* handle_refund up to the submission: u presses the refund button under the
\* result message of run i
RefundCallback(u, i) ==
    /\ handler = Idle
    /\ i \in 1..Len(batches)
    /\ batches[i].pc = "done"
    /\ batches[i].refund > 0
    /\ UNCHANGED <<ongoing_spins, MAINTENANCE_MODE, users, whitelist, transactions,
                   total_winnings_paid, batches>>
    /\ LET refund_amount == batches[i].refund
           manifest == settle_spin_manifest(GameAccount, UserAccount(u), refund_amount)
       IN  IF RefundRefused(u, batches[i].user)
           THEN UNCHANGED handler
           ELSE handler' = NewHandler("refund", u, "submitting", "", batches[i].num,
                                      refund_amount, i, Tx(manifest, GameAccount))

\* the rest of handle_refund.  saved: save_whitelist reached the database (it
\* logs and swallows a failure).  The last step takes the refund button off
\* the message.
RefundReturns(result, saved) ==
    /\ handler.kind = "refund"
    /\ handler.pc = "submitting"
    /\ result \in SubmitResults
    /\ handler' = Idle
    /\ UNCHANGED <<ongoing_spins, MAINTENANCE_MODE, users, transactions>>
    /\ IF HasError(result)
       THEN UNCHANGED <<whitelist, total_winnings_paid, batches>>
       ELSE /\ whitelist' = IF saved THEN whitelist \ {handler.user} ELSE whitelist
            /\ total_winnings_paid' = total_winnings_paid + (handler.amount - FEE)
            /\ batches' = [batches EXCEPT ![handler.ref].refund = 0]

\* ------------------------------------------------------------------ withdraw

\* WithdrawRefused that lets an amount of exactly 1.01 XRD through
RefusedBelowMin(u, chat, amount, balance) ==
    \/ ~check_maintenance_mode(u)
    \/ ~check_chat_permissions(u, chat, "/withdraw_spinner")
    \/ IsBusy(u)
    \/ u \notin users
    \/ amount > balance
    \/ amount < WITHDRAW_MIN

\* the checks of withdraw that end it with a message and nothing else
WithdrawRefused(u, chat, amount, balance) ==
    \/ ~check_maintenance_mode(u)
    \/ ~check_chat_permissions(u, chat, "/withdraw_spinner")
    \/ IsBusy(u)
    \/ u \notin users
    \/ amount > balance
    \/ amount <= WITHDRAW_MIN

\* the withdraw rows of table transactions
Withdrawals == {k \in 1..Len(transactions) : transactions[k].action = "withdraw"}

\* withdraw up to the submission
WithdrawCommand(u, chat, amountarg, balance) ==
    /\ handler = Idle
    /\ Cardinality(Withdrawals) < MaxWithdrawals
    /\ UNCHANGED <<ongoing_spins, MAINTENANCE_MODE, users, whitelist, transactions,
                   total_winnings_paid, batches>>
    /\ LET amount == IF amountarg = <<>> THEN balance ELSE amountarg[1]
           tx == [payer |-> UserAccount(u), payee |-> <<"external", u>>,
                  amount |-> amount - WITHDRAW_FEE, signer |-> UserAccount(u)]
       IN  IF WithdrawRefused(u, chat, amount, balance)
           THEN UNCHANGED handler
           ELSE handler' = NewHandler("withdraw", u, "submitting", "", 0, amount, 0, tx)

\* "await submit_transaction_with_manifest(...)" of withdraw returns
WithdrawReturns(result) ==
    /\ handler.kind = "withdraw"
    /\ handler.pc = "submitting"
    /\ result \in SubmitResults
    /\ handler' = [handler EXCEPT !.pc = "returned", !.result = result]
    /\ UNCHANGED <<ongoing_spins, MAINTENANCE_MODE, users, whitelist, transactions,
                   total_winnings_paid, batches>>

\* a withdraw that writes its row for every result without an "error" key
RecordedUnlessError(result) == ~HasError(result)

\* the results for which withdraw writes its row.  In simulation mode the
\* submission returns CommittedSuccess, so "SIMULATION_MODE or status ==
\* CommittedSuccess" is the test of the status in either mode.
WithdrawRecorded(result) == ~HasError(result) /\ result = "CommittedSuccess"

\* the message withdraw answers with after the submission
WithdrawReply(result) ==
    IF HasError(result) THEN "Transaction failed: error"
    ELSE IF result = "CommittedSuccess" THEN "Successfully withdrew"
    ELSE "Transaction failed: could not be completed"

\* the rest of withdraw: the row of a withdrawal that went through, and the
\* reply
WithdrawReplies ==
    /\ handler.kind = "withdraw"
    /\ handler.pc = "returned"
    /\ handler' = Idle
    /\ UNCHANGED <<ongoing_spins, MAINTENANCE_MODE, users, whitelist,
                   total_winnings_paid, batches>>
    /\ IF WithdrawRecorded(handler.result)
       THEN transactions' = Append(transactions,
                        [telegram_id |-> handler.user, action |-> "withdraw",
                         amount |-> handler.amount - WITHDRAW_FEE])
       ELSE UNCHANGED transactions

\* ------------------------------------------------------------ create_account

create_account(u, chat) ==
    /\ handler = Idle
    /\ UNCHANGED <<ongoing_spins, MAINTENANCE_MODE, whitelist, total_winnings_paid,
                   handler, batches>>
    /\ IF \/ ~check_maintenance_mode(u)
          \/ ~check_chat_permissions(u, chat, "/create_spinner")
          \/ u \in users
       THEN UNCHANGED <<users, transactions>>
       ELSE /\ users' = users \cup {u}
            /\ transactions' = Append(transactions,
                        [telegram_id |-> u, action |-> "deposit",
                         amount |-> INITIAL_DEPOSIT])

\* -------------------------------------------------------- the owner commands

toggle_migrate(u) ==
    /\ handler = Idle
    /\ UNCHANGED <<ongoing_spins, users, whitelist, transactions,
                   total_winnings_paid, handler, batches>>
    /\ IF u # GAME_OWNER_TELEGRAM_ID
       THEN UNCHANGED MAINTENANCE_MODE
       ELSE MAINTENANCE_MODE' = ~MAINTENANCE_MODE

add_to_whitelist(u, target) ==
    /\ handler = Idle
    /\ UNCHANGED <<ongoing_spins, MAINTENANCE_MODE, users, transactions,
                   total_winnings_paid, handler, batches>>
    /\ IF \/ ~check_maintenance_mode(u)
          \/ u # GAME_OWNER_TELEGRAM_ID
          \/ target \in whitelist
       THEN UNCHANGED whitelist
       ELSE whitelist' = whitelist \cup {target}

remove_from_whitelist(u, target) ==
    /\ handler = Idle
    /\ UNCHANGED <<ongoing_spins, MAINTENANCE_MODE, users, transactions,
                   total_winnings_paid, handler, batches>>
    /\ IF \/ ~check_maintenance_mode(u)
          \/ u # GAME_OWNER_TELEGRAM_ID
          \/ target \notin whitelist
       THEN UNCHANGED whitelist
       ELSE whitelist' = whitelist \ {target}

\* ------------------------------------------------------- the specification

Next ==
    \/ \E u \in Players, chat \in Chats, variant \in Variants, numarg \in NumArgs :
            PlayCommand(u, chat, variant, numarg)
    \/ \E arg \in AmountArgs, game_balance \in HouseBalances,
          max_balance \in UserBalances, balance \in UserBalances, raises \in BOOLEAN :
            ValidateCommand(arg, game_balance, max_balance, balance, raises)
    \/ \E i \in 1..MaxBatches, dice \in DiceRolls : RollDice(i, dice)
    \/ \E i \in 1..MaxBatches : Settle(i)
    \/ \E i \in 1..MaxBatches, result \in SubmitResults : SubmitReturns(i, result)
    \/ \E i \in 1..MaxBatches : Record(i)
    \/ \E i \in 1..MaxBatches : Report(i)
    \/ \E i \in 1..MaxBatches : BatchRaises(i)
    \/ \E u \in Handles, i \in 1..MaxBatches, raises \in BOOLEAN :
            AgainCallback(u, i, raises)
    \/ \E game_balance \in HouseBalances, balance \in UserBalances,
          raises \in BOOLEAN :
            ValidateAgain(game_balance, balance, raises)
    \/ \E u \in Handles, i \in 1..MaxBatches : RefundCallback(u, i)
    \/ \E result \in SubmitResults, saved \in BOOLEAN : RefundReturns(result, saved)
    \/ \E u \in Handles, chat \in Chats, amountarg \in WithdrawArgs,
          balance \in UserBalances :
            WithdrawCommand(u, chat, amountarg, balance)
    \/ \E result \in SubmitResults : WithdrawReturns(result)
    \/ WithdrawReplies
    \/ \E u \in Handles, chat \in Chats : create_account(u, chat)
    \/ \E u \in Handles : toggle_migrate(u)
    \/ \E u \in Handles, target \in Targets : add_to_whitelist(u, target)
    \/ \E u \in Handles, target \in Targets : remove_from_whitelist(u, target)

Spec == Init /\ [][Next]_vars

\* ------------------------------------------- one run, from entry to its end

\* what a validated command hands to process_multiple_*: the arguments of
\* the command and the game balance its validation read.  With an empty game
\* account max_bet is 0 and a numeric amount is adjusted down to it.
RunArgs == {Num(XRD(10)), Num(XRD(1))}
RunHouseBalances == {XRD(0), XRD(2400)}
RunPlays == 1..3

\* the state as create_task starts a run: both accounts exist, the bot is
\* out of maintenance, the user is whitelisted, the flag is set
InitRuns ==
    \E u \in Handles, variant \in Variants, arg \in RunArgs,
       game_balance \in RunHouseBalances, num \in RunPlays :
        LET r == get_spin_amount(arg, variant, game_balance, TRUE, 0)
        IN  /\ r.ok
            /\ ongoing_spins = [v \in Handles |-> v = u]
            /\ MAINTENANCE_MODE = FALSE
            /\ users = Handles
            /\ whitelist = Targets
            /\ transactions = <<[telegram_id |-> 0, action |-> "deposit",
                                 amount |-> INITIAL_DEPOSIT],
                                [telegram_id |-> 1, action |-> "deposit",
                                 amount |-> INITIAL_DEPOSIT]>>
            /\ total_winnings_paid = 0
            /\ handler = Idle
            /\ batches = <<NewBatch(u, variant, r.amount, num, "command",
                                    TotalNeeded(r.amount, num),
                                    calculate_max_bet(game_balance, variant))>>

NextRuns ==
    \/ \E i \in 1..MaxBatches, dice \in DiceRolls : RollDice(i, dice)
    \/ \E i \in 1..MaxBatches : Settle(i)
    \/ \E i \in 1..MaxBatches, result \in SubmitResults : SubmitReturns(i, result)
    \/ \E i \in 1..MaxBatches : Record(i)
    \/ \E i \in 1..MaxBatches : Report(i)
    \/ \E i \in 1..MaxBatches : BatchRaises(i)

SpecRuns == InitRuns /\ [][NextRuns]_vars

\* ------------------------------------- two runs of two users, side by side

\* the tasks of two users whose commands were validated one after the other,
\* each for one play of what 1 XRD or 10 XRD resolves to
InitSettlements ==
    /\ ongoing_spins = [v \in Handles |-> TRUE]
    /\ MAINTENANCE_MODE = FALSE
    /\ users = Handles
    /\ whitelist = Targets
    /\ transactions = <<[telegram_id |-> 0, action |-> "deposit",
                         amount |-> INITIAL_DEPOSIT],
                        [telegram_id |-> 1, action |-> "deposit",
                         amount |-> INITIAL_DEPOSIT]>>
    /\ total_winnings_paid = 0
    /\ handler = Idle
    /\ \E game_balance \in HouseBalances :
       \E first \in Variants \X RunArgs, second \in Variants \X RunArgs :
          LET r1 == get_spin_amount(first[2], first[1], game_balance, TRUE, 0)
              r2 == get_spin_amount(second[2], second[1], game_balance, TRUE, 0)
          IN  /\ r1.ok /\ r2.ok
              /\ batches =
                    <<NewBatch(GAME_OWNER_TELEGRAM_ID, first[1], r1.amount, 1,
                               "command", TotalNeeded(r1.amount, 1),
                               calculate_max_bet(game_balance, first[1])),
                      NewBatch(1, second[1], r2.amount, 1, "command",
                               TotalNeeded(r2.amount, 1),
                               calculate_max_bet(game_balance, second[1]))>>

SpecSettlements == InitSettlements /\ [][NextRuns]_vars

\* ------------------------------------- one play request from its validation

\* context.args[0] and the balances the validation reads: one, two and three
\* plays of 1 XRD with and without the fee, and plenty
RequestArgs == {Max, Num(XRD(1)), Num(XRD(10))}
RequestBalances == {XRD(1), 7200, XRD(3), 16800, XRD(31)}
\* what the game account holds while the request is validated: the balance
\* the buttons were made with, and one drained since
RequestHouseBalances == {XRD(1000), XRD(30)}

\* the result message an again button hangs under: a run started by a
\* command that lost every play
LostRun(u, variant, amount, num) ==
    Ended([NewBatch(u, variant, amount, num, "command", 0, 0) EXCEPT
              !.net = 0 - amount * num], "results")

\* a command handler of user 1 has passed its checks, or an again-callback
\* has set the flag, and the validation is about to read the balances
InitRequests ==
    /\ MAINTENANCE_MODE = FALSE
    /\ users \in {Handles, {GAME_OWNER_TELEGRAM_ID}}
    /\ whitelist = Targets
    /\ transactions = <<>>
    /\ total_winnings_paid = 0
    /\ \E u \in Players, variant \in Variants, num \in RunPlays :
          \/ /\ handler = NewHandler("command", u, "validate", variant, num,
                                     0, 0, NoTx)
             /\ ongoing_spins = [v \in Handles |->
                                   v = u /\ AcquiresBeforeValidation(variant)]
             /\ batches = <<>>
          \/ \E arg \in RequestArgs, game_balance \in HouseBalances,
                max_balance \in RequestBalances :
                LET r == get_spin_amount(arg, variant, game_balance, TRUE,
                                         max_balance)
                IN  /\ r.ok
                    /\ handler = NewHandler("again", u, "validate", variant, num,
                                            r.amount, 0, NoTx)
                    /\ ongoing_spins = [v \in Handles |-> v = u]
                    /\ batches = <<LostRun(u, variant, r.amount, num)>>

NextRequests ==
    \/ \E arg \in RequestArgs, game_balance \in RequestHouseBalances,
          max_balance \in RequestBalances, balance \in RequestBalances,
          raises \in BOOLEAN :
            ValidateCommand(arg, game_balance, max_balance, balance, raises)
    \/ \E game_balance \in RequestHouseBalances, balance \in RequestBalances,
          raises \in BOOLEAN :
            ValidateAgain(game_balance, balance, raises)
    \/ \E i \in 1..MaxBatches, dice \in DiceRolls : RollDice(i, dice)
    \/ \E i \in 1..MaxBatches : Settle(i)
    \/ \E i \in 1..MaxBatches, result \in SubmitResults : SubmitReturns(i, result)
    \/ \E i \in 1..MaxBatches : Record(i)
    \/ \E i \in 1..MaxBatches : Report(i)
    \/ \E i \in 1..MaxBatches : BatchRaises(i)

SpecRequests == InitRequests /\ [][NextRequests]_vars

\* a request from its validation to the end of its run, and the refund
\* button under its result message
NextRefunds ==
    \/ NextRequests
    \/ \E u \in Handles, i \in 1..MaxBatches : RefundCallback(u, i)
    \/ \E result \in SubmitResults, saved \in BOOLEAN : RefundReturns(result, saved)

SpecRefunds == InitRequests /\ [][NextRefunds]_vars

\* ------------------------------------------- the amount of a play, alone

\* game balances: overdrawn, empty, small, the spec's example, and the two
\* beyond which the ceilings of the die and of the slot variants bind
BetHouseBalances ==
    {XRD(0 - 1000), XRD(0), XRD(30), XRD(1000), XRD(100000), XRD(300000)}
\* user balances: empty, below the fee, below and at minimum plus fee, small,
\* above every max_bet
BetUserBalances == {XRD(0), 1200, XRD(1), 7200, XRD(3), XRD(2000)}
\* context.args[0]: max, and numbers below the minimum, at it, within and
\* above the max_bet of the example balance, and above the ceiling
BetArgs == {Max, Num(XRD(0 - 1)), Num(2400), Num(XRD(1)), Num(XRD(4)),
            Num(XRD(300)), Num(XRD(2000))}

\* the frame of get_spin_amount (of max_bet for the /max_bet command) with
\* what it was called with and what it has computed so far
Call(kind, user, variant, arg, game_balance, user_balance) ==
    [kind |-> kind, user |-> user, pc |-> "game_balance", variant |-> variant,
     arg |-> arg, game_balance |-> game_balance, user_balance |-> user_balance,
     max_bet |-> 0, result |-> Rejected(""), info |-> max_bet(0)]

\* a command handler has called get_spin_amount, or /max_bet has been sent,
\* and the game balance has been read; the user has an account or not
InitBets ==
    /\ ongoing_spins = [v \in Handles |-> FALSE]
    /\ MAINTENANCE_MODE = FALSE
    /\ users \in {{}, Players}
    /\ whitelist = Targets
    /\ transactions = <<>>
    /\ total_winnings_paid = 0
    /\ batches = <<>>
    /\ \E u \in Players, game_balance \in BetHouseBalances :
          \/ \E variant \in Variants, arg \in BetArgs, user_balance \in BetUserBalances :
                handler = Call("get_spin_amount", u, variant, arg, game_balance,
                               user_balance)
          \/ handler = Call("max_bet", u, "", Max, game_balance, 0)

\* "max_bet = await calculate_max_bet(game_balance, is_seven_spin, is_die)"
MaxBetReturns ==
    /\ handler.kind = "get_spin_amount"
    /\ handler.pc = "game_balance"
    /\ handler' = [handler EXCEPT
                     !.pc = "max_bet",
                     !.max_bet = calculate_max_bet(handler.game_balance,
                                                   handler.variant)]
    /\ UNCHANGED <<ongoing_spins, MAINTENANCE_MODE, users, whitelist, transactions,
                   total_winnings_paid, batches>>

\* the rest of get_spin_amount, to its return
SpinAmountReturns ==
    /\ handler.kind = "get_spin_amount"
    /\ handler.pc = "max_bet"
    /\ handler' = [handler EXCEPT
                     !.pc = "returned",
                     !.result = get_spin_amount(handler.arg, handler.variant,
                                                handler.game_balance,
                                                handler.user \in users,
                                                handler.user_balance)]
    /\ UNCHANGED <<ongoing_spins, MAINTENANCE_MODE, users, whitelist, transactions,
                   total_winnings_paid, batches>>

\* the /max_bet command, to its reply
MaxBetCommand ==
    /\ handler.kind = "max_bet"
    /\ handler.pc = "game_balance"
    /\ handler' = [handler EXCEPT !.pc = "returned",
                                  !.info = max_bet(handler.game_balance)]
    /\ UNCHANGED <<ongoing_spins, MAINTENANCE_MODE, users, whitelist, transactions,
                   total_winnings_paid, batches>>

NextBets ==
    \/ MaxBetReturns
    \/ SpinAmountReturns
    \/ MaxBetCommand

SpecBets == InitBets /\ [][NextBets]_vars

\* ------------------------------------- create_account and the users table

\* the create_account requests followed
MaxRequests == 3
\* what create_radix_account can return: two addresses, so that two accounts
\* can be given the same one
Addresses == {"account_a", "account_b"}

\* a row of table users (telegram_id INTEGER PRIMARY KEY, radix_address TEXT
\* UNIQUE)
UserRow(telegram_id, radix_address) ==
    [telegram_id |-> telegram_id, radix_address |-> radix_address]

\* ViolatesConstraint of a table without PRIMARY KEY and UNIQUE
Unconstrained(rows, row) == FALSE

\* whether the INSERT of row raises IntegrityError
ViolatesConstraint(rows, row) ==
    \E k \in 1..Len(rows) :
        \/ rows[k].telegram_id = row.telegram_id
        \/ rows[k].radix_address = row.radix_address

\* "SELECT radix_address FROM users WHERE telegram_id = ?"
existing_account(rows, user_id) ==
    {rows[k].radix_address : k \in {j \in 1..Len(rows) : rows[j].telegram_id = user_id}}

\* the create_account handlers in progress.  In this specification users
\* holds the rows of the table and not only their keys, and requests are
\* followed one by one even where they overlap.
Requests(frames) == [kind |-> "create_account", frames |-> frames]
Request(user_id) == [user |-> user_id, pc |-> "select"]

InitAccounts ==
    /\ ongoing_spins = [v \in Handles |-> FALSE]
    /\ MAINTENANCE_MODE = FALSE
    /\ users = <<>>
    /\ whitelist = Targets
    /\ transactions = <<>>
    /\ total_winnings_paid = 0
    /\ batches = <<>>
    /\ handler = Requests(<<>>)

\* /create_spinner of user u arrives, in a private chat
CreateRequested(u) ==
    /\ Len(handler.frames) < MaxRequests
    /\ handler' = Requests(Append(handler.frames, Request(u)))
    /\ UNCHANGED <<ongoing_spins, MAINTENANCE_MODE, users, whitelist, transactions,
                   total_winnings_paid, batches>>

\* the SELECT and the reply to a user who has an account
SelectAccount(r) ==
    /\ r \in 1..Len(handler.frames)
    /\ handler.frames[r].pc = "select"
    /\ handler' = [handler EXCEPT !.frames[r].pc =
                      IF existing_account(users, handler.frames[r].user) # {}
                      THEN "exists" ELSE "insert"]
    /\ UNCHANGED <<ongoing_spins, MAINTENANCE_MODE, users, whitelist, transactions,
                   total_winnings_paid, batches>>

\* create_radix_account, the two INSERTs and the commit; an INSERT that
\* raises leaves the handler without a commit
InsertAccount(r, address) ==
    /\ r \in 1..Len(handler.frames)
    /\ handler.frames[r].pc = "insert"
    /\ LET row == UserRow(handler.frames[r].user, address)
       IN  IF ViolatesConstraint(users, row)
           THEN /\ handler' = [handler EXCEPT !.frames[r].pc = "raised"]
                /\ UNCHANGED <<users, transactions>>
           ELSE /\ handler' = [handler EXCEPT !.frames[r].pc = "created"]
                /\ users' = Append(users, row)
                /\ transactions' = Append(transactions,
                        [telegram_id |-> row.telegram_id, action |-> "deposit",
                         amount |-> INITIAL_DEPOSIT])
    /\ UNCHANGED <<ongoing_spins, MAINTENANCE_MODE, whitelist,
                   total_winnings_paid, batches>>

NextAccounts ==
    \/ \E u \in Handles : CreateRequested(u)
    \/ \E r \in 1..MaxRequests : SelectAccount(r)
    \/ \E r \in 1..MaxRequests, address \in Addresses : InsertAccount(r, address)

SpecAccounts == InitAccounts /\ [][NextAccounts]_vars

\* ------------------------------------- send_winnings_with_retry, alone

\* "max_retries: int = 3" and "for _ in range(10)"
max_retries == 3
MAX_POLLS == 10

\* what a status request gives: the statuses of the gateway, and an exception
\* for a request that failed
FinalStatuses == {"CommittedSuccess", "CommittedFailure", "Rejected"}
PollOutcomes == FinalStatuses \cup {"Pending", "Unknown", "raise"}
\* how an attempt ends without a status: submit_transaction_with_manifest
\* returns {"error": ...}, or the attempt raises
AttemptFailures == {"error", "raise"}

\* the results of submit_transaction_with_manifest as an attempt sees them,
\* and an exception
ErrorResult(text) == [kind |-> "error", status |-> "", error_message |-> text]
StatusResult(status, error_message) ==
    [kind |-> "status", status |-> status, error_message |-> error_message]
Raised(text) == [kind |-> "raise", status |-> "", error_message |-> text]

\* what check_transaction_status returns after a poll: the gateway's result
\* on a final status, the timeout after the last poll, nothing yet otherwise
NoResult == [kind |-> "none", status |-> "", error_message |-> ""]
TimedOut == StatusResult("Unknown", "Timed out waiting for transaction confirmation")

\* check_transaction_status that polls on after a final failure
ReturnsOnSuccessOnly(outcome, polls) ==
    IF outcome = "CommittedSuccess" THEN StatusResult(outcome, "")
    ELSE IF polls = MAX_POLLS THEN TimedOut
    ELSE NoResult

\* one turn of the loop of check_transaction_status; polls counts this one
AfterPoll(outcome, polls) ==
    IF outcome \in FinalStatuses THEN StatusResult(outcome, "")
    ELSE IF polls = MAX_POLLS THEN TimedOut
    ELSE NoResult

\* MayRetry that gives up after the second attempt
RetriesOnce(attempt) == attempt < 1

\* "if attempt < max_retries - 1"
MayRetry(attempt) == attempt < max_retries - 1

\* what send_winnings_with_retry returns when it does not retry
GivenUp(result) ==
    IF result.kind = "status"
    THEN [error |-> TRUE, carries |-> result.status]
    ELSE [error |-> TRUE, carries |-> result.error_message]
Success(result) == [error |-> FALSE, carries |-> result.status]
NotReturned == [error |-> FALSE, carries |-> ""]

\* the frame of send_winnings_with_retry: attempt is the loop variable,
\* attempts what the attempts so far ended with, sleeps the sleeps between
\* them; polls and seen belong to the check_transaction_status in progress.
\* ledger: the transactions the gateway has received from this call, one for
\* each submission (each has its own nonce and intent hash), with what the
\* ledger has made of it
Payout(attempt, attempts, sleeps, pc) ==
    [kind |-> "send_winnings_with_retry", user |-> GAME_OWNER_TELEGRAM_ID,
     pc |-> pc, attempt |-> attempt, attempts |-> attempts, sleeps |-> sleeps,
     polls |-> 0, seen |-> "", result |-> NotReturned, ledger |-> <<>>]

\* what a status request can give for a transaction the ledger holds as
\* status: anything while it is pending, its final status once it has one
GatewayAnswers(status) ==
    IF status = "Pending" THEN PollOutcomes ELSE {status, "raise"}

InitPayout ==
    /\ ongoing_spins = [v \in Handles |-> FALSE]
    /\ MAINTENANCE_MODE = FALSE
    /\ users = Handles
    /\ whitelist = Targets
    /\ transactions = <<>>
    /\ total_winnings_paid = 0
    /\ batches = <<>>
    /\ handler = Payout(0, <<>>, <<>>, "submit")

\* the end of an attempt: return, or sleep and go round again
AttemptEnds(result) ==
    LET f == [handler EXCEPT !.attempts = Append(@, result)]
    IN  IF result.kind = "status" /\ result.status = "CommittedSuccess"
        THEN [f EXCEPT !.pc = "returned", !.result = Success(result)]
        ELSE IF MayRetry(handler.attempt)
        THEN [f EXCEPT !.pc = "sleep"]
        ELSE [f EXCEPT !.pc = "returned", !.result = GivenUp(result)]

\* the attempt ends before any status is asked for: the manifest or the
\* submission fails
AttemptFails(failure) ==
    /\ handler.kind = "send_winnings_with_retry"
    /\ handler.pc = "submit"
    /\ handler' = AttemptEnds(IF failure = "error"
                               THEN ErrorResult("submission failed")
                               ELSE Raised("exception"))
    /\ UNCHANGED <<ongoing_spins, MAINTENANCE_MODE, users, whitelist, transactions,
                   total_winnings_paid, batches>>

\* the transaction is submitted and check_transaction_status is entered
Submitted ==
    /\ handler.kind = "send_winnings_with_retry"
    /\ handler.pc = "submit"
    /\ handler' = [handler EXCEPT !.pc = "poll", !.polls = 0, !.seen = "",
                                  !.ledger = Append(@, "Pending")]
    /\ UNCHANGED <<ongoing_spins, MAINTENANCE_MODE, users, whitelist, transactions,
                   total_winnings_paid, batches>>

\* one status request of check_transaction_status; when the function
\* returns, submit_transaction_with_manifest returns its status and the
\* attempt ends
Poll(outcome) ==
    /\ handler.kind = "send_winnings_with_retry"
    /\ handler.pc = "poll"
    /\ handler.polls < MAX_POLLS
    /\ outcome \in GatewayAnswers(handler.ledger[Len(handler.ledger)])
    /\ LET r == AfterPoll(outcome, handler.polls + 1)
           ledger == IF outcome \in FinalStatuses
                     THEN [handler.ledger EXCEPT ![Len(handler.ledger)] = outcome]
                     ELSE handler.ledger
       IN  handler' =
             IF r = NoResult
             THEN [handler EXCEPT !.polls = @ + 1, !.seen = outcome,
                                  !.ledger = ledger]
             ELSE [AttemptEnds(r) EXCEPT !.polls = handler.polls + 1,
                                         !.seen = outcome, !.ledger = ledger]
    /\ UNCHANGED <<ongoing_spins, MAINTENANCE_MODE, users, whitelist, transactions,
                   total_winnings_paid, batches>>

\* RadixClient.submit_transaction raises after the gateway has received the
\* transaction (the response is lost or is an error status): the except
\* clause of submit_transaction_with_manifest returns {"error": ...} and no
\* status is asked for
SubmissionLost ==
    /\ handler.kind = "send_winnings_with_retry"
    /\ handler.pc = "submit"
    /\ handler' = [AttemptEnds(ErrorResult("submission raised")) EXCEPT
                      !.ledger = Append(@, "Pending")]
    /\ UNCHANGED <<ongoing_spins, MAINTENANCE_MODE, users, whitelist, transactions,
                   total_winnings_paid, batches>>

\* the ledger settles transaction k, which no status request is waiting
\* for: it was submitted by an attempt that has ended
LedgerSettles(k, status) ==
    /\ handler.kind = "send_winnings_with_retry"
    /\ k \in 1..Len(handler.ledger)
    /\ handler.ledger[k] = "Pending"
    /\ k < Len(handler.ledger) \/ handler.pc # "poll"
    /\ status \in FinalStatuses
    /\ handler' = [handler EXCEPT !.ledger[k] = status]
    /\ UNCHANGED <<ongoing_spins, MAINTENANCE_MODE, users, whitelist, transactions,
                   total_winnings_paid, batches>>

\* "await asyncio.sleep(1)", "continue"
Backoff ==
    /\ handler.kind = "send_winnings_with_retry"
    /\ handler.pc = "sleep"
    /\ handler' = [handler EXCEPT !.pc = "submit", !.attempt = @ + 1,
                                  !.sleeps = Append(@, 1)]
    /\ UNCHANGED <<ongoing_spins, MAINTENANCE_MODE, users, whitelist, transactions,
                   total_winnings_paid, batches>>

NextPayout ==
    \/ \E failure \in AttemptFailures : AttemptFails(failure)
    \/ Submitted
    \/ \E outcome \in PollOutcomes : Poll(outcome)
    \/ SubmissionLost
    \/ \E k \in 1..max_retries, status \in FinalStatuses : LedgerSettles(k, status)
    \/ Backoff

SpecPayout == InitPayout /\ [][NextPayout]_vars

\* --------------------------------------------------------------- properties

\* the runs that have not ended
Running == {i \in 1..Len(batches) : batches[i].pc # "done"}

\* whether the handler the dispatcher is in has set the flag of u and has not
\* yet handed it to a run
HandlerHolds(u) ==
    /\ handler.user = u
    /\ handler.pc = "validate"
    /\ \/ handler.kind = "again"
       \/ handler.kind = "command" /\ AcquiresBeforeValidation(handler.variant)

\* the play sequences of u between their acquisition of the flag and the end
\* of their run
InFlight(u) ==
    Cardinality({i \in Running : batches[i].user = u})
        + (IF HandlerHolds(u) THEN 1 ELSE 0)

\* C1: at every moment at most one play sequence of a handle is between its
\* acquisition of the busy flag and the end of its run.
C1_AtMostOneInFlight == \A u \in Handles : InFlight(u) <= 1

\* C2: a busy flag that is set belongs to a play sequence that has not ended
\* yet; once a request has ended, on whichever path, its handle is not busy.
C2_NoFlagOutlivesItsRequest == \A u \in Handles : ongoing_spins[u] => InFlight(u) >= 1

\* requests ended on a failed submission and on an exception, and no handle busy
C2_Witness ==
    /\ \E i \in 1..Len(batches) :
          batches[i].pc = "done" /\ batches[i].report = "transaction failed"
    /\ \E i \in 1..Len(batches) :
          batches[i].pc = "done" /\ batches[i].report = "error"
    /\ \A u \in Handles : ~ongoing_spins[u]

\* C3: a run whose settlement came back with status Unknown goes neither to
\* the counter update nor to the result message, and credits nothing.
C3_UnknownIsFailure ==
    \A i \in 1..Len(batches) :
        batches[i].status = "Unknown"
            => batches[i].pc \notin {"record", "report"} /\ batches[i].credited = 0

\* C4: a run whose settlement came back CommittedFailure or Rejected is
\* abandoned: no counter update, no result message.
C4_DefinitiveFailureAbandons ==
    \A i \in 1..Len(batches) :
        batches[i].status \in {"CommittedFailure", "Rejected"}
            => batches[i].pc \notin {"record", "report"} /\ batches[i].credited = 0

\* C5: the one transfer of a run with a non-zero net result moves its absolute
\* value out of the game account, signed by the game account, when it is
\* positive, and out of the user's account, signed by the user, when it is
\* negative; the signer is the account the funds leave.
C5_PayerSignsSettlement ==
    \A i \in Running :
        LET b == batches[i]
        IN  (b.pc # "start" /\ b.pc # "rolled" /\ b.net # 0) =>
                /\ b.tx.amount = Abs(b.net)
                /\ b.tx.signer = b.tx.payer
                /\ b.net > 0 => /\ b.tx.payer = GameAccount
                                /\ b.tx.payee = UserAccount(b.user)
                /\ b.net < 0 => /\ b.tx.payer = UserAccount(b.user)
                                /\ b.tx.payee = GameAccount

\* a loss submitted under the user's keys
C5_Witness ==
    \E i \in Running :
        /\ batches[i].pc = "submitting"
        /\ batches[i].net < 0
        /\ batches[i].tx.signer = UserAccount(batches[i].user)
        /\ batches[i].tx.amount = -batches[i].net

\* C6: the step that records a confirmed settlement with a positive net result
\* adds exactly net result - 0.5 XRD to the counter, and the transfer it
\* records paid the user the full net result.
C6_CounterTakesFeeOff ==
    [][\A i \in 1..Len(batches) :
          (/\ batches[i].pc = "record"
           /\ batches'[i].pc = "report"
           /\ batches[i].status = "CommittedSuccess"
           /\ batches[i].net > 0)
          => /\ total_winnings_paid' - total_winnings_paid = batches[i].net - XRD(1) \div 2
             /\ batches[i].tx.amount = batches[i].net
             /\ batches[i].tx.payee = UserAccount(batches[i].user)]_vars

\* net result 90: transfer 90, counter + 89.5
C6_Witness ==
    \E i \in Running :
        /\ batches[i].pc = "report"
        /\ batches[i].status = "CommittedSuccess"
        /\ batches[i].net = XRD(90)
        /\ batches[i].tx.amount = XRD(90)
        /\ batches[i].credited = XRD(90) - XRD(1) \div 2
        /\ total_winnings_paid = XRD(90) - XRD(1) \div 2

\* C7: no step of a run with a negative net result changes the counter.
C7_LossLeavesCounter ==
    [][\A i \in Running :
          (batches[i].net < 0 /\ batches'[i] # batches[i])
          => total_winnings_paid' = total_winnings_paid]_vars

\* a confirmed loss at its result message, nothing credited
C7_Witness ==
    \E i \in Running :
        /\ batches[i].pc = "report"
        /\ batches[i].net < 0
        /\ batches[i].status = "CommittedSuccess"
        /\ batches[i].credited = 0

\* C8: the counter changes only in the step that records a play settlement
\* with a positive net result.
C8_OnlyWinningSettlements ==
    [][total_winnings_paid' # total_winnings_paid
          => \E i \in Running :
                /\ batches[i].pc = "record"
                /\ batches'[i].pc = "report"
                /\ batches[i].net > 0]_vars

\* the multiplier and the winning values of each variant, as stated
StatedMultiplier(variant) ==
    CASE variant = "spin" -> 12 [] variant = "spin_7s" -> 48 [] variant = "die" -> 5

StatedWinningValues(variant) ==
    CASE variant = "spin" -> {1, 22, 43, 64}
      [] variant = "spin_7s" -> {64}
      [] variant = "die" -> {6}

\* C9: the net result a run computes from its dice is the amount times the
\* variant's multiplier for each winning play, less the amount times the
\* number of plays.
C9_NetResult ==
    [][\A i \in Running :
          (batches[i].pc = "rolled" /\ batches'[i].pc \in {"submitting", "report"})
          => LET b == batches[i]
                 wins == {k \in 1..Len(b.dice) : b.dice[k] \in StatedWinningValues(b.variant)}
                 gross == b.amount * StatedMultiplier(b.variant) * Cardinality(wins)
             IN  /\ Len(b.dice) = b.num
                 /\ b.num \in 1..3
                 /\ batches'[i].total_winnings = gross
                 /\ batches'[i].net = gross - b.amount * b.num]_vars

\* amount 10, three plays of /spin, one win: gross 120, cost 30, net 90
C9_Witness ==
    \E i \in Running :
        /\ batches[i].variant = "spin"
        /\ batches[i].amount = XRD(10)
        /\ batches[i].num = 3
        /\ batches[i].pc = "submitting"
        /\ batches[i].total_winnings = XRD(120)
        /\ batches[i].net = XRD(90)

\* C10: a run makes at most one submission, and none when it has not computed
\* a non-zero net result; a submission that failed is not made again.
C10_OneSubmission ==
    \A i \in 1..Len(batches) :
        /\ batches[i].submits <= 1
        /\ batches[i].submits = 1 <=> (batches[i].tx # NoTx)
        /\ batches[i].pc \in {"record", "report"} /\ batches[i].net # 0
              => batches[i].submits = 1

\* a run ended by a failed submission, its handle free again
C10_Witness ==
    /\ \E i \in 1..Len(batches) :
          batches[i].pc = "done" /\ batches[i].report = "transaction failed"
    /\ Running = {}
    /\ \A u \in Handles : ~ongoing_spins[u]

\* C11: a run whose net result is zero builds no manifest and submits
\* nothing; it goes on to its result message, the counter is as it was and
\* the flag is released when it ends.
C11_ZeroNetNoTransfer ==
    [][\A i \in Running :
          /\ (batches[i].pc = "rolled" /\ batches'[i].pc = "report") =>
                 /\ batches'[i].net = 0
                 /\ batches'[i].tx = NoTx
                 /\ batches'[i].submits = 0
                 /\ total_winnings_paid' = total_winnings_paid
          /\ (batches[i].pc = "report" /\ batches[i].tx = NoTx
                                       /\ batches'[i].pc = "done") =>
                 /\ batches[i].credited = 0
                 /\ total_winnings_paid' = total_winnings_paid
                 /\ ~ongoing_spins'[batches[i].user]
          /\ (batches[i].pc = "rolled" /\ batches'[i].pc = "submitting")
                 => batches'[i].net # 0]_vars

\* a run with net result zero ended with its results, nothing submitted
C11_Witness ==
    \E i \in 1..Len(batches) :
        /\ batches[i].pc = "done"
        /\ batches[i].report = "results"
        /\ batches[i].amount = 0
        /\ batches[i].refund = 0
        /\ total_winnings_paid = 0
        /\ \A u \in Handles : ~ongoing_spins[u]

\* C12: a run is entered only from a handler that has finished its
\* validation, with a balance read that covers it and no dice drawn; its dice
\* are all drawn before anything is computed from them; and the amount it
\* was entered with is the amount it is charged, unchanged to its end.
C12_ValidateDrawSettle ==
    [][/\ Len(batches') > Len(batches) =>
             LET b == batches'[Len(batches')]
             IN  /\ handler.pc = "validate"
                 /\ handler.kind \in {"command", "again"}
                 /\ b.pc = "start"
                 /\ b.dice = <<>>
                 /\ b.balance >= b.amount * b.num + XRD(1) \div 2
       /\ \A i \in Running :
             /\ batches'[i].pc # "done" =>
                    /\ batches'[i].amount = batches[i].amount
                    /\ batches'[i].num = batches[i].num
                    /\ batches'[i].variant = batches[i].variant
             /\ (batches'[i].dice # batches[i].dice /\ batches'[i].dice # <<>>) =>
                    /\ batches[i].pc = "start"
                    /\ batches[i].tx = NoTx
                    /\ Len(batches'[i].dice) = batches[i].num
             /\ (batches[i].pc = "rolled" /\ batches'[i].pc \in {"submitting", "report"}) =>
                    /\ Len(batches[i].dice) = batches[i].num
                    /\ batches'[i].total_winnings - batches'[i].net
                          = batches[i].amount * batches[i].num]_vars

\* a run entered from an again-callback, its loss submitted at the amount
\* of the button
C12_Witness ==
    \E i \in Running :
        /\ batches[i].via = "again"
        /\ batches[i].pc = "submitting"
        /\ batches[i].amount > 0
        /\ batches[i].tx.amount = batches[i].amount * batches[i].num

\* C13: the flag of a handle is set all through its play sequence: while its
\* handler validates (amount resolution, balance check) and while its run
\* draws and settles.
C13_LockedFromValidation ==
    /\ (handler.kind \in {"command", "again"} /\ handler.pc = "validate")
           => ongoing_spins[handler.user]
    /\ \A i \in Running : ongoing_spins[batches[i].user]

\* C14: a play request that is turned down (a step that starts no handler,
\* moves no run and is no other command) leaves every flag that is set as it
\* is, submits nothing and leaves the counter alone.
C14_BusyRequestChangesNothing ==
    [][(/\ handler = Idle /\ handler' = Idle
        /\ batches' = batches
        /\ users' = users /\ whitelist' = whitelist
        /\ MAINTENANCE_MODE' = MAINTENANCE_MODE)
          => /\ \A u \in Handles : ongoing_spins[u] => ongoing_spins'[u]
             /\ transactions' = transactions
             /\ total_winnings_paid' = total_winnings_paid]_vars

\* C15: a run whose end clears the flag more than once leaves the flags as
\* one clearing does: the handle's flag unset, every other flag untouched.
C15_SecondReleaseIsNoOp ==
    [][\A i \in Running :
          (batches'[i].pc = "done"
             /\ ReleasesAtEnd(batches[i], batches'[i].report) >= 2)
            => ongoing_spins' = [ongoing_spins EXCEPT ![batches[i].user] = FALSE]]_vars

\* a run an again-callback awaited has ended on its results (cleared by the
\* run's finally clause, then by the callback's), nobody busy
C15_Witness ==
    /\ \E i \in 1..Len(batches) :
          batches[i].pc = "done" /\ batches[i].report = "results"
             /\ batches[i].via = "again"
    /\ \A u \in Handles : ~ongoing_spins[u]

\* the game balances calculate_max_bet is compared over: every thousand XRD
\* from overdrawn to beyond the last ceiling
ComparedBalances == {XRD(k * 1000) : k \in (0 - 2)..310}

\* whether the frame of get_spin_amount holds the max_bet it computed
HasMaxBet == handler.kind = "get_spin_amount" /\ handler.pc \in {"max_bet", "returned"}

\* C16: the max_bet computed for a game balance is at most the ceiling of
\* 1000 XRD and at least the max_bet of every lower game balance, for each
\* variant and for empty and overdrawn game accounts too.
C16_MaxBetMonotoneAndCapped ==
    HasMaxBet =>
        /\ handler.max_bet <= XRD(1000)
        /\ \A g \in ComparedBalances \cup BetHouseBalances :
              /\ g <= handler.game_balance =>
                    calculate_max_bet(g, handler.variant) <= handler.max_bet
              /\ g >= handler.game_balance =>
                    calculate_max_bet(g, handler.variant) >= handler.max_bet
              /\ calculate_max_bet(g, handler.variant) <= XRD(1000)

\* the max_bet of a game balance at which the ceiling binds, and of an
\* overdrawn one
C16_Witness ==
    /\ HasMaxBet
    /\ handler.variant = "die"
    /\ handler.game_balance = XRD(300000)
    /\ handler.max_bet = XRD(1000)
    /\ calculate_max_bet(XRD(0 - 1000), "die") = 0

\* min(ceiling, max(0, balance * 5 / 100) / multiplier), the sevens capped at
\* a quarter of the ceiling
StatedMaxBet(game_balance, variant) ==
    LET share  == PercentOf(game_balance, 5)
        maxWin == IF share < 0 THEN 0 ELSE share
        capped == Min2(XRD(1000), maxWin \div StatedMultiplier(variant))
    IN  IF variant = "spin_7s" THEN Min2(capped, XRD(1000) \div 4) ELSE capped

\* C17: the max_bet computed is min(ceiling, max(0, balance * 5 / 100) /
\* multiplier) with multiplier 12, 48, 5, for the sevens capped at a quarter
\* of the ceiling; with 1000 XRD in the game account the standard variant
\* has max win 50 XRD and max bet 50/12 XRD.  The /max_bet command reports
\* the same three figures.
C17_MaxBetFormula ==
    /\ HasMaxBet =>
          /\ handler.max_bet = StatedMaxBet(handler.game_balance, handler.variant)
          /\ (handler.variant = "spin" /\ handler.game_balance = XRD(1000)) =>
                /\ MaxWin(handler.game_balance) = XRD(50)
                /\ handler.max_bet * 12 = XRD(50)
    /\ (handler.kind = "max_bet" /\ handler.pc = "returned") =>
          /\ handler.info.spin = StatedMaxBet(handler.game_balance, "spin")
          /\ handler.info.spin_7s = StatedMaxBet(handler.game_balance, "spin_7s")
          /\ handler.info.die = StatedMaxBet(handler.game_balance, "die")

\* the sevens with a game balance at which the quarter ceiling binds
C17_Witness ==
    /\ HasMaxBet
    /\ handler.variant = "spin_7s"
    /\ handler.game_balance = XRD(300000)
    /\ handler.max_bet = XRD(250)

\* whether get_spin_amount has returned
Returned == handler.kind = "get_spin_amount" /\ handler.pc = "returned"

\* C18: a number below 1 XRD is turned down; a number above max_bet is
\* resolved to max_bet and never turned down; any other number is resolved
\* to itself.
C18_NumericAmount ==
    (Returned /\ handler.arg.lit = "num") =>
        LET v == handler.arg.value
        IN  /\ v < XRD(1) => ~handler.result.ok
            /\ (v >= XRD(1) /\ v > handler.max_bet) =>
                  handler.result.ok /\ handler.result.amount = handler.max_bet
            /\ (v >= XRD(1) /\ v <= handler.max_bet) =>
                  handler.result.ok /\ handler.result.amount = v

\* a number above max_bet has been resolved to max_bet
C18_Witness ==
    /\ Returned
    /\ handler.arg = Num(XRD(300))
    /\ handler.max_bet = XRD(250)
    /\ handler.result = Adjusted(XRD(250))

\* C19: "max" of a user with an account is resolved to the lesser of max_bet
\* and the user's balance less the fee of 0.5 XRD, and turned down when that
\* is below 1 XRD.
C19_MaxAmount ==
    (Returned /\ handler.arg.lit = "max" /\ handler.user \in users) =>
        LET a == Min2(handler.max_bet, handler.user_balance - XRD(1) \div 2)
        IN  IF a < XRD(1) THEN ~handler.result.ok
            ELSE handler.result.ok /\ handler.result.amount = a

\* "max" resolved to the balance less the fee, below max_bet
C19_Witness ==
    /\ Returned
    /\ handler.arg = Max
    /\ handler.user_balance = XRD(3)
    /\ handler.max_bet > XRD(3)
    /\ handler.result = Resolved(XRD(3) - XRD(1) \div 2)

\* C20: a play request, of a command of any variant or of an again button,
\* is turned down with nothing drawn and nothing submitted unless the balance
\* its validation read covers the amount for every play plus the fee of
\* 0.5 XRD once; outcomes are drawn and transfers submitted only in runs the
\* balance covered.
C20_FundsCoverStakesAndOneFee ==
    [][/\ (handler.pc = "validate" /\ Len(batches') > Len(batches)) =>
             LET b == batches'[Len(batches')]
             IN  /\ b.balance >= b.amount * b.num + XRD(1) \div 2
                 /\ b.dice = <<>>
                 /\ b.tx = NoTx
       /\ (handler.pc = "validate" /\ Len(batches') = Len(batches)) =>
             /\ batches' = batches
             /\ transactions' = transactions
             /\ total_winnings_paid' = total_winnings_paid
       /\ \A i \in Running :
             (batches'[i].dice # batches[i].dice \/ batches'[i].tx # batches[i].tx) =>
                batches[i].balance >=
                    batches[i].amount * batches[i].num + XRD(1) \div 2]_vars

\* three plays of 1 XRD started by an again button with a balance of exactly
\* 3.5 XRD, lost and submitted
C20_Witness ==
    \E i \in Running :
        /\ batches[i].via = "again"
        /\ batches[i].num = 3
        /\ batches[i].amount = XRD(1)
        /\ batches[i].balance = 16800
        /\ batches[i].pc = "submitting"

\* C21: the amount of a run whose dice are drawn is at most the max_bet of
\* what the game account held when the run was requested, for runs started
\* by the commands and by the again buttons.
C21_SizedByMaxBet ==
    \A i \in Running :
        batches[i].dice # <<>> => batches[i].amount <= batches[i].max_bet

\* whether send_winnings_with_retry is running or has returned
InPayout == handler.kind = "send_winnings_with_retry"

\* whether an attempt ended with the status CommittedSuccess
Succeeded(result) == result.kind = "status" /\ result.status = "CommittedSuccess"

\* C22: send_winnings_with_retry makes at most 3 attempts, sleeps 1 between
\* consecutive attempts, returns at the first attempt that ends with
\* CommittedSuccess, and after 3 failed attempts returns an error that
\* carries what the last attempt ended with.
C22_ThreeAttemptsWithBackoff ==
    InPayout =>
        LET n == Len(handler.attempts)
        IN  /\ n <= 3
            /\ \A k \in 1..(n - 1) : ~Succeeded(handler.attempts[k])
            /\ handler.pc = "submit" => handler.sleeps = [k \in 1..n |-> 1]
            /\ handler.pc = "returned" =>
                  /\ handler.sleeps = [k \in 1..(n - 1) |-> 1]
                  /\ IF Succeeded(handler.attempts[n])
                     THEN ~handler.result.error
                     ELSE /\ n = 3
                          /\ handler.result.error
                          /\ handler.result.carries \in
                                {handler.attempts[n].status,
                                 handler.attempts[n].error_message} \ {""}
            /\ (n > 0 /\ Succeeded(handler.attempts[n])) => handler.pc = "returned"

\* three failed attempts of three kinds, two sleeps, the error returned
C22_Witness ==
    /\ InPayout
    /\ handler.pc = "returned"
    /\ Len(handler.attempts) = 3
    /\ handler.attempts[1].kind = "error"
    /\ handler.attempts[2].kind = "raise"
    /\ handler.attempts[3] = StatusResult("Rejected", "")
    /\ handler.sleeps = <<1, 1>>
    /\ handler.result = [error |-> TRUE, carries |-> "Rejected"]

\* a step of the call itself, as against a step of the ledger, which changes
\* nothing of the frame but the ledger
OwnStep == [handler' EXCEPT !.ledger = handler.ledger] # handler

\* C30: check_transaction_status makes at most 10 status requests; it
\* returns the gateway's status at the first final one (CommittedSuccess,
\* CommittedFailure, Rejected), and Unknown with the timeout message when
\* ten requests gave none (pending, unknown, or failed requests).
C30_AtMostTenPolls ==
    [][(InPayout /\ handler.pc = "poll" /\ OwnStep) =>
          LET n == Len(handler.attempts)
              returns == Len(handler'.attempts) = n + 1
          IN  /\ handler.polls < 10
              /\ handler'.polls = handler.polls + 1
              /\ handler.seen \notin {"CommittedSuccess", "CommittedFailure", "Rejected"}
              /\ handler'.seen \in {"CommittedSuccess", "CommittedFailure", "Rejected"} =>
                    returns /\ handler'.attempts[n + 1] = StatusResult(handler'.seen, "")
              /\ (handler'.seen \notin {"CommittedSuccess", "CommittedFailure", "Rejected"}
                    /\ handler'.polls = 10) =>
                    /\ returns
                    /\ handler'.attempts[n + 1].status = "Unknown"
                    /\ handler'.attempts[n + 1].error_message =
                          "Timed out waiting for transaction confirmation"
              /\ (handler'.seen \notin {"CommittedSuccess", "CommittedFailure", "Rejected"}
                    /\ handler'.polls < 10) =>
                    ~returns /\ handler'.pc = "poll"]_vars

\* ten status requests without a final status, and the timeout returned
C30_Witness ==
    /\ InPayout
    /\ handler.polls = 10
    /\ handler.seen = "raise"
    /\ Len(handler.attempts) = 1
    /\ handler.attempts[1] = TimedOut

RECURSIVE SumCredited(_)
\* what the runs so far have added to the counter
SumCredited(bs) ==
    IF bs = <<>> THEN 0
    ELSE SumCredited(SubSeq(bs, 1, Len(bs) - 1)) + bs[Len(bs)].credited

\* C23: however the settlements of two users interleave, the counter is
\* what it started with (0) plus the increments of the settlements recorded
\* so far, and the step that records one adds its increment to whatever the
\* counter holds at that moment.
C23_NoLostUpdate ==
    /\ total_winnings_paid = SumCredited(batches)
    /\ \A i \in Running :
          batches[i].credited # 0 =>
             /\ batches[i].pc = "report"
             /\ batches[i].net > 0
             /\ batches[i].credited = batches[i].net - XRD(1) \div 2

\* both users' settlements recorded, the second while the first was still
\* before its result message
C23_Witness ==
    /\ Len(batches) = 2
    /\ batches[1].user # batches[2].user
    /\ batches[1].pc = "report"
    /\ batches[2].pc = "report"
    /\ batches[1].credited > 0
    /\ batches[2].credited > 0
    /\ total_winnings_paid = batches[1].credited + batches[2].credited

\* C24: no step of a run, of any variant and with any outcome, and no step
\* that starts one, changes the transactions table, the users or the
\* whitelist.
C24_RunsWriteNoRecord ==
    [][(\/ Len(batches') > Len(batches)
        \/ \E i \in Running : batches'[i] # batches[i])
          => /\ transactions' = transactions
             /\ users' = users
             /\ whitelist' = whitelist]_vars

\* a win and a loss, both confirmed, and the table holds the deposits only
C24_Witness ==
    /\ Len(batches) = 2
    /\ batches[1].pc = "done" /\ batches[1].report = "results"
    /\ batches[1].refund > 0
    /\ batches[2].pc = "report" /\ batches[2].credited > 0
    /\ \A k \in 1..Len(transactions) : transactions[k].action = "deposit"

WinningValues(variant) == {d \in DiceValues(variant) : IsWin(variant, d)}

\* C26: in every variant the multiplier times the number of winning values
\* is less than the number of values: 12 * 4 < 64 with 1, 22, 43, 64 winning,
\* 48 * 1 < 64 with 64 winning, 5 * 1 < 6 with 6 winning; and a run pays
\* the multiplier for the winning values only.
C26_HouseEdge ==
    /\ \A variant \in Variants :
          Multiplier(variant) * Cardinality(WinningValues(variant))
              < Cardinality(DiceValues(variant))
    /\ WinningValues("spin") = {1, 22, 43, 64} /\ Multiplier("spin") = 12
    /\ WinningValues("spin_7s") = {64} /\ Multiplier("spin_7s") = 48
    /\ WinningValues("die") = {6} /\ Multiplier("die") = 5
    /\ Cardinality(DiceValues("spin")) = 64
    /\ Cardinality(DiceValues("spin_7s")) = 64
    /\ Cardinality(DiceValues("die")) = 6
    /\ \A i \in Running :
          batches[i].pc \in {"submitting", "record", "report"} =>
             \E wins \in 0..batches[i].num :
                batches[i].total_winnings =
                    wins * batches[i].amount * Multiplier(batches[i].variant)

\* a die run of three rolls with one six: 5 times the amount won, 3 staked
C26_Witness ==
    \E i \in Running :
        /\ batches[i].variant = "die"
        /\ batches[i].num = 3
        /\ batches[i].amount > 0
        /\ batches[i].pc = "submitting"
        /\ batches[i].total_winnings = 5 * batches[i].amount
        /\ batches[i].net = 2 * batches[i].amount

\* C27: however account creations follow and overlap, no two rows of the
\* users table have the same handle or the same address, each row has its
\* one deposit record and there is no other record, so a request for a
\* handle that has an account adds no row and no record.
C27_OneAccountPerHandle ==
    handler.kind = "create_account" =>
        /\ \A j, k \in 1..Len(users) :
              j # k => /\ users[j].telegram_id # users[k].telegram_id
                       /\ users[j].radix_address # users[k].radix_address
        /\ Len(transactions) = Len(users)
        /\ \A k \in 1..Len(users) :
              /\ transactions[k].telegram_id = users[k].telegram_id
              /\ transactions[k].action = "deposit"
        /\ \A r \in 1..Len(handler.frames) :
              handler.frames[r].pc \in {"exists", "created"} =>
                 \E k \in 1..Len(users) :
                    users[k].telegram_id = handler.frames[r].user

\* one request created the account, one that overlapped it was stopped by
\* the table, and a later one was told the account exists
C27_Witness ==
    /\ handler.kind = "create_account"
    /\ Len(handler.frames) = 3
    /\ \A r \in 1..3 : handler.frames[r].user = 1
    /\ {handler.frames[r].pc : r \in 1..3} = {"created", "raised", "exists"}
    /\ Len(users) = 1

\* C28: a step that starts a run starts it for a user who is on the
\* whitelist or is the game owner.
C28_OnlyWhitelistedPlay ==
    [][Len(batches') > Len(batches) =>
          LET u == batches'[Len(batches')].user
          IN  u \in whitelist \/ u = GAME_OWNER_TELEGRAM_ID]_vars

\* C29: the step in which a refund is processed (its transfer submitted
\* without error, its button taken off) leaves the refunded user off the
\* whitelist, and a refund is submitted only for the owner or a user who is
\* on the whitelist.
C29_RefundRemovesFromWhitelist ==
    [][/\ (handler.kind = "refund" /\ handler.pc = "submitting"
            /\ batches'[handler.ref].refund # batches[handler.ref].refund)
             => handler.user \notin whitelist'
       /\ (handler'.kind = "refund" /\ handler.kind # "refund")
             => (handler'.user \in whitelist
                   \/ handler'.user = GAME_OWNER_TELEGRAM_ID)]_vars

\* C31: table transactions gets a withdraw row only in the step that ends a
\* withdraw whose submission came back CommittedSuccess, and then exactly the
\* row of that withdrawal; a withdraw that ends after an error result or any
\* other status leaves the table as it was and replies that the transaction
\* failed.
C31_WithdrawRecordedOnSuccessOnly ==
    [][/\ Withdrawals' # Withdrawals =>
              /\ handler.kind = "withdraw" /\ handler.pc = "returned"
              /\ handler.result = "CommittedSuccess"
              /\ transactions' = Append(transactions,
                        [telegram_id |-> handler.user, action |-> "withdraw",
                         amount |-> handler.amount - WITHDRAW_FEE])
       /\ (handler.kind = "withdraw" /\ handler.pc = "returned"
              /\ handler' = Idle /\ handler.result # "CommittedSuccess") =>
              /\ transactions' = transactions
              /\ WithdrawReply(handler.result) \in
                     {"Transaction failed: error",
                      "Transaction failed: could not be completed"}
       /\ (handler.kind = "withdraw" /\ handler.pc = "returned"
              /\ handler' = Idle /\ handler.result = "CommittedSuccess") =>
              /\ Withdrawals' # Withdrawals
              /\ WithdrawReply(handler.result) = "Successfully withdrew"]_vars

\* a withdraw whose submission came back Unknown, about to answer, with no
\* withdraw row in the table
C31_Witness ==
    /\ handler.kind = "withdraw"
    /\ handler.pc = "returned"
    /\ handler.result = "Unknown"
    /\ Withdrawals = {}

\* C32: a withdraw that has passed its checks, up to its reply, belongs to a
\* handle none of whose runs is under way: no withdraw transfer is submitted
\* between the start of a run of the handle and its end.
C32_NoWithdrawDuringRun ==
    handler.kind = "withdraw" =>
        \A i \in Running : batches[i].user # handler.user

\* C33: while maintenance mode is on, no run is started and no refund is
\* taken up for a user other than the game owner, by a command or by a
\* button.
C33_MaintenanceBlocksUsers ==
    [][/\ Len(batches') > Len(batches)
            => \/ ~MAINTENANCE_MODE
               \/ batches'[Len(batches')].user = GAME_OWNER_TELEGRAM_ID
       /\ (handler.kind # "refund" /\ handler'.kind = "refund")
            => \/ ~MAINTENANCE_MODE
               \/ handler'.user = GAME_OWNER_TELEGRAM_ID]_vars

\* C34: a step that clears the flag of a handle is a step of the play
\* sequence that set it: the end of a run of the handle, or the end of the
\* handler that holds the flag at validation.
C34_ClearedByHolderOnly ==
    [][\A u \in Handles :
          (ongoing_spins[u] /\ ~ongoing_spins'[u]) =>
              \/ \E i \in Running :
                     batches[i].user = u /\ batches'[i].pc = "done"
              \/ HandlerHolds(u) /\ handler' = Idle]_vars

\* C35: the amount of a run whose dice are drawn is at least MIN_SPIN_AMOUNT
\* and at most the max_bet of what the game account held when the run was
\* requested, whatever the game account holds and whether the run was started
\* by a command or by an again button.
C35_AmountWithinLimits ==
    \A i \in Running :
        batches[i].dice # <<>> =>
            /\ batches[i].amount >= MIN_SPIN_AMOUNT
            /\ batches[i].amount <= batches[i].max_bet

\* C36: no step lowers the counter: what a winning run adds (its net result
\* less the fee) and what a refund adds (its amount less the fee) is never
\* negative.
C36_CounterNeverDecreases ==
    [][total_winnings_paid' >= total_winnings_paid]_vars

\* C37: the transfer by which the game account pays a run started by a
\* command is at most MaxWin of the game balance that get_spin_amount read
\* for that run (the balance the run's max_bet was calculated from), for
\* every variant, 1 to 3 plays and every dice.
C37_PayoutWithinMaxWin ==
    \A i \in Running :
        LET b == batches[i]
        IN  (b.via = "command" /\ b.tx # NoTx /\ b.tx.payer = GameAccount) =>
                \A game_balance \in RequestHouseBalances :
                    calculate_max_bet(game_balance, b.variant) = b.max_bet
                        => b.tx.amount <= MaxWin(game_balance)

\* the result message of a run that did not win (it added nothing to the
\* counter) whose refund button has been taken off: its refund was processed
RefundPaid(j) ==
    /\ batches[j].pc = "done"
    /\ batches[j].report = "results"
    /\ batches[j].credited = 0
    /\ batches[j].refund = 0

\* the refund transfers submitted to a user: the processed ones and the one
\* handle_refund is submitting
RefundsSubmitted(u) ==
    Cardinality({j \in 1..Len(batches) : batches[j].user = u /\ RefundPaid(j)})
        + (IF handler.kind = "refund" /\ handler.user = u THEN 1 ELSE 0)

\* C38: while nobody is added to the whitelist, a user other than the game
\* owner has at most one refund transfer submitted: after a processed refund
\* no other refund of that user reaches its submission.
C38_OneRefundPerMembership ==
    \A u \in Handles \ {GAME_OWNER_TELEGRAM_ID} : RefundsSubmitted(u) <= 1

\* C39: a result message gets a refund button only when the run lost and its
\* loss transfer came back CommittedSuccess, and the button carries the
\* absolute value of the net result; a refund transfer is submitted only from
\* such a button, for its amount, out of the game account, to its spinner.
C39_RefundForConfirmedLossOnly ==
    [][/\ \A i \in Running :
              (batches'[i].pc = "done" /\ batches'[i].refund > 0) =>
                  /\ batches[i].net < 0
                  /\ batches[i].status = "CommittedSuccess"
                  /\ batches'[i].refund = Abs(batches[i].net)
       /\ (handler.kind # "refund" /\ handler'.kind = "refund") =>
              /\ batches[handler'.ref].refund > 0
              /\ handler'.tx.amount = batches[handler'.ref].refund
              /\ handler'.tx.payer = GameAccount
              /\ handler'.user = batches[handler'.ref].user]_vars

\* the transactions of the call that the ledger has committed
Committed == {k \in 1..Len(handler.ledger) : handler.ledger[k] = "CommittedSuccess"}

\* C40: of the transactions one call of send_winnings_with_retry submits, at
\* most one is committed on the ledger, at every moment of the call and
\* after it, whenever the ledger settles them.
C40_PaidAtMostOnce ==
    InPayout => Cardinality(Committed) <= 1

====
